---------------------------- MODULE Spec2Model ----------------------------
(***************************************************************************)
(* A model of diskspace2slack (src/diskspace2slack.go): one pass over the  *)
(* configured mounts, a goroutine per breaching mount that posts to Slack, *)
(* and a sync.WaitGroup that main waits on.                                *)
(*                                                                         *)
(* Three groups of definitions:                                            *)
(*   - IEEE-754 binary32 arithmetic (Go's float32), exact, on the part of  *)
(*     the range the model's inputs reach;                                 *)
(*   - the pure functions ByteSize, StatDisk and MapStrToInt;              *)
(*   - main and SendDiskSpaceReport as interleaved processes.              *)
(***************************************************************************)
EXTENDS Integers, Sequences, FiniteSets, TLC

VARIABLES
    diskNames,          \* strings.Fields(*diskNamePtr)            (line 130)
    thresholdValuesStr, \* strings.Fields(*thresholdPtr)           (line 131)
    thresholdValues,    \* result of MapStrToInt                   (line 134)
    diskData,           \* map[string]uint64                       (line 142)
    pending,            \* keys the range over diskData has not yet visited
    cur,                \* the loop's (disk, thresholdValue) between wg.Add and go
    pc,                 \* where main is
    wg,                 \* the WaitGroup's counter
    tasks,              \* the goroutines started by line 158, in launch order
    exit,               \* "running", "ok" (status 0) or "panic" (status 2)
    statCalls,          \* history: every StatDisk call main made, with its result
    slack,              \* history: tasks whose message Slack accepted
    stdout,             \* history: tasks whose confirmation line was printed
    fin,                \* argument of the pure function under test
    fout                \* <<>>, then <<its result>>

vars == <<diskNames, thresholdValuesStr, thresholdValues, diskData, pending, cur,
          pc, wg, tasks, exit, statCalls, slack, stdout, fin, fout>>

-----------------------------------------------------------------------------
(* Bounds of the model *)

\* most tokens in -disk and in -threshold
MaxArgs == 3
\* largest block count the StatDisk specification draws
MaxBlocks == 100
\* ByteSize is applied to every byte count up to this, and to the samples
MaxSmallBytes == 2100

-----------------------------------------------------------------------------
(* float32.  A finite value is m * 2^e with m = 0 or 2^23 <= m < 2^24.     *)
(* Subnormals, infinities and exponent overflow are not reached by the     *)
(* quotients and products of the program, whose operands are integers      *)
(* below 2^64; 0/0 is.                                                     *)

MantBits == 24

RECURSIVE BitLen(_)
BitLen(n) == IF n = 0 THEN 0 ELSE 1 + BitLen(n \div 2)

\* n / 2^s rounded to the nearest integer, ties to even
RoundShift(n, s) ==
    IF s <= 0 THEN n
    ELSE LET q == n \div (2^s)
             r == n % (2^s)
             half == 2^(s-1)
         IN  IF r > half \/ (r = half /\ q % 2 = 1) THEN q + 1 ELSE q

F32Zero == [k |-> "num", m |-> 0, e |-> 0]
F32NaN  == [k |-> "nan", m |-> 0, e |-> 0]

\* the float32 nearest to n * 2^e, for an integer 0 <= n < 2^31
F32Norm(n, e) ==
    IF n = 0 THEN F32Zero
    ELSE LET l == BitLen(n) IN
         IF l <= MantBits
         THEN [k |-> "num", m |-> n * 2^(MantBits - l), e |-> e - (MantBits - l)]
         ELSE LET s == l - MantBits
                  r == RoundShift(n, s)
              IN  IF r = 2^MantBits
                  THEN [k |-> "num", m |-> 2^(MantBits-1), e |-> e + s + 1]
                  ELSE [k |-> "num", m |-> r, e |-> e + s]

\* float32(n) for an integer small enough to be one TLC integer
F32FromInt(n) == F32Norm(n, 0)

\* n further quotient bits of r/d (r < d), by long division: <<bits, remainder>>
RECURSIVE DivBits(_, _, _, _)
DivBits(r, d, n, acc) ==
    IF n = 0 THEN <<acc, r>>
    ELSE IF 2*r >= d THEN DivBits(2*r - d, d, n - 1, 2*acc + 1)
         ELSE DivBits(2*r, d, n - 1, 2*acc)

\* a / b in float32 (one correctly rounded operation)
F32Div(a, b) ==
    IF a.k = "nan" \/ b.k = "nan" THEN F32NaN
    ELSE IF b.m = 0 THEN F32NaN   \* 0/0; x/0 with x > 0 is not reached
    ELSE IF a.m = 0 THEN F32Zero
    ELSE LET q0 == a.m \div b.m
             qr == DivBits(a.m % b.m, b.m, MantBits + 1, q0)
             sticky == IF qr[2] = 0 THEN 0 ELSE 1
         IN  F32Norm(2*qr[1] + sticky, a.e - b.e - (MantBits + 2))

RECURSIVE TrailingZeros(_)
TrailingZeros(n) == IF n % 2 = 1 THEN 0 ELSE 1 + TrailingZeros(n \div 2)

\* a * b in float32, for b with at most 7 significant bits (100 has 5)
F32Mul(a, b) ==
    IF a.k = "nan" \/ b.k = "nan" THEN F32NaN
    ELSE IF a.m = 0 \/ b.m = 0 THEN F32Zero
    ELSE LET tz == TrailingZeros(b.m)
         IN  F32Norm(a.m * (b.m \div 2^tz), a.e + b.e + tz)

\* uint64(NaN): the Go specification leaves the result of a conversion the
\* target cannot represent to the implementation.  amd64 gives 2^63, arm64
\* gives 0.  2^63 is written as the largest integer TLC has.
NaNToUint64 == {0, 2147483647}

\* uint64(f): the possible results (one, except for NaN)
F32ToUint64(f) ==
    IF f.k = "nan" THEN NaNToUint64
    ELSE IF f.m = 0 THEN {0}
    ELSE IF f.e >= 0 THEN {f.m * 2^f.e}
    ELSE IF -f.e >= MantBits THEN {0}
    ELSE {f.m \div 2^(-f.e)}

-----------------------------------------------------------------------------
(* uint64 byte counts for ByteSize.  TLC's integers end at 2^31 - 1, so a  *)
(* byte count is two limbs, hi * 2^20 + lo with 0 <= lo < 2^20.            *)

Limb == 2^20

U64(hi, lo) == [hi |-> hi, lo |-> lo]

\* floor(b / 2^d), which the caller knows to fit one integer
FloorShift(b, d) ==
    IF d <= 20 THEN b.hi * 2^(20 - d) + b.lo \div 2^d
    ELSE b.hi \div 2^(d - 20)

\* whether b has a one among its d lowest bits
LowBits(b, d) ==
    IF d <= 20 THEN b.lo % 2^d # 0
    ELSE b.hi % 2^(d - 20) # 0 \/ b.lo # 0

U64BitLen(b) == IF b.hi = 0 THEN BitLen(b.lo) ELSE 20 + BitLen(b.hi)

\* float32(bytes): the nearest float32, ties to even (line 28)
F32FromU64(b) ==
    LET l == U64BitLen(b) IN
    IF l <= MantBits + 2 THEN F32FromInt(b.hi * Limb + b.lo)
    ELSE LET d == l - (MantBits + 2)
             sticky == IF LowBits(b, d) THEN 1 ELSE 0
         IN  F32Norm(2 * FloorShift(b, d) + sticky, d - 1)

\* uint64(c) for an untyped constant c whose value is an integer
U64FromConst(c) ==
    IF c.e >= 0 THEN U64(c.m \div 2^(20 - c.e), (c.m % 2^(20 - c.e)) * 2^c.e)
    ELSE LET v == c.m \div 2^(-c.e) IN U64(v \div Limb, v % Limb)

U64Geq(a, b) == a.hi > b.hi \/ (a.hi = b.hi /\ a.lo >= b.lo)

-----------------------------------------------------------------------------
(* Strings are sequences of one-character strings. *)

DecimalDigits == <<"0", "1", "2", "3", "4", "5", "6", "7", "8", "9">>

\* %d
RECURSIVE FormatInt(_)
FormatInt(n) ==
    IF n < 10 THEN <<DecimalDigits[n + 1]>>
    ELSE Append(FormatInt(n \div 10), DecimalDigits[(n % 10) + 1])

\* fmt.Sprintf("%.1f", value): the decimal nearest to the exact binary value,
\* ties to even (strconv's correctly rounded conversion)
FormatF1(f) ==
    LET t == IF f.e >= 0 THEN f.m * 10 * 2^f.e ELSE RoundShift(f.m * 10, -f.e)
    IN  FormatInt(t \div 10) \o <<".">> \o FormatInt(t % 10)

\* strings.TrimSuffix
TrimSuffix(s, suffix) ==
    IF Len(s) >= Len(suffix)
       /\ SubSeq(s, Len(s) - Len(suffix) + 1, Len(s)) = suffix
    THEN SubSeq(s, 1, Len(s) - Len(suffix))
    ELSE s

BYTE     == F32FromInt(1)
KILOBYTE == F32Mul(F32FromInt(1024), BYTE)
MEGABYTE == F32Mul(F32FromInt(1024), KILOBYTE)
GIGABYTE == F32Mul(F32FromInt(1024), MEGABYTE)
TERABYTE == F32Mul(F32FromInt(1024), GIGABYTE)

\* the switch of ByteSize: <<unit, value>>, the first case that matches
ByteUnit(bytes, value) ==
    CASE U64Geq(bytes, U64FromConst(TERABYTE)) -> <<<<"T", "B">>, F32Div(value, TERABYTE)>>
      [] U64Geq(bytes, U64FromConst(GIGABYTE)) -> <<<<"G", "B">>, F32Div(value, GIGABYTE)>>
      [] U64Geq(bytes, U64FromConst(MEGABYTE)) -> <<<<"M", "B">>, F32Div(value, MEGABYTE)>>
      [] U64Geq(bytes, U64FromConst(KILOBYTE)) -> <<<<"K", "B">>, F32Div(value, KILOBYTE)>>
      [] U64Geq(bytes, U64FromConst(BYTE))     -> <<<<"B">>, value>>
      [] OTHER -> <<<<>>, value>>

ByteSize(bytes) ==
    LET value == F32FromU64(bytes)
        uv    == ByteUnit(bytes, value)
    IN  IF ~U64Geq(bytes, U64FromConst(BYTE)) /\ bytes = U64(0, 0)
        THEN <<"0">>
        ELSE TrimSuffix(FormatF1(uv[2]), <<".", "0">>) \o uv[1]

-----------------------------------------------------------------------------
(* StatDisk *)

\* DiskState{}.  Host is left out: it is read only for the text of the message.
NoDisk == [Name |-> "", All |-> 0, Used |-> 0, Free |-> 0, FreePercentage |-> 0]

\* what syscall.Statfs answers for a path: an error, or the three fields read
StatfsErr == [err |-> TRUE, Blocks |-> 0, Bsize |-> 0, Bavail |-> 0]
StatfsOk(blocks, bsize, bavail) ==
    [err |-> FALSE, Blocks |-> blocks, Bsize |-> bsize, Bavail |-> bavail]

\* The possible returns of StatDisk(path) when Statfs answers fs: one, except
\* when All is 0 and the percentage is uint64(NaN).
StatDisk(path, fs) ==
    IF fs.err THEN {[err |-> TRUE, disk |-> NoDisk]}
    ELSE LET all  == fs.Blocks * fs.Bsize
             free == fs.Bavail * fs.Bsize
             pct  == F32Mul(F32Div(F32FromInt(free), F32FromInt(all)), F32FromInt(100))
         IN  { [err |-> FALSE,
                disk |-> [Name |-> path, All |-> all, Used |-> all - free,
                          Free |-> free, FreePercentage |-> p]] : p \in F32ToUint64(pct) }

-----------------------------------------------------------------------------
(* MapStrToInt *)

DigitValue(c) == CHOOSE d \in 0..9 : DecimalDigits[d + 1] = c

IsDigit(c) == \E d \in 0..9 : DecimalDigits[d + 1] = c

\* the loop of strconv.ParseUint(v, 10, 64) from character i on.  A token of
\* the model is too short to pass 2^64 - 1 (ErrRange).
RECURSIVE ParseDigits(_, _, _)
ParseDigits(v, i, n) ==
    IF i > Len(v) THEN [err |-> FALSE, n |-> n]
    ELSE IF ~IsDigit(v[i]) THEN [err |-> TRUE, n |-> 0]
    ELSE ParseDigits(v, i + 1, n * 10 + DigitValue(v[i]))

ParseUint(v) == IF v = <<>> THEN [err |-> TRUE, n |-> 0] ELSE ParseDigits(v, 1, 0)

\* [err |-> a panic, vals |-> intArray]
RECURSIVE MapStrToIntFrom(_, _, _)
MapStrToIntFrom(strArray, i, intArray) ==
    IF i > Len(strArray) THEN [err |-> FALSE, vals |-> intArray]
    ELSE LET r == ParseUint(strArray[i]) IN
         IF r.err THEN [err |-> TRUE, vals |-> <<>>]
         ELSE MapStrToIntFrom(strArray, i + 1, Append(intArray, r.n))

MapStrToInt(strArray) == MapStrToIntFrom(strArray, 1, <<>>)

-----------------------------------------------------------------------------
(* The inputs of a run *)

Paths == {"/", "/tmp"}

\* tokens of -threshold: 5, 60 and one that is no number
Tokens == {<<"5">>, <<"6", "0">>, <<"1", "x">>}

SeqsUpTo(S, n) == UNION {[1..k -> S] : k \in 0..n}

\* what Statfs may answer for a mount when main asks: an error, an empty
\* filesystem (such as /proc), or 100 blocks of which 5, 53 or all are free
StatfsAnswers ==
    {StatfsErr} \cup
    {StatfsOk(ba[1], 4096, ba[2]) : ba \in {<<0, 0>>, <<100, 5>>, <<100, 53>>, <<100, 100>>}}

NoCur == [disk |-> NoDisk, threshold |-> 0]

\* no map yet
NoMap == [x \in {} |-> 0]

Init ==
    /\ diskNames \in SeqsUpTo(Paths, MaxArgs)
    /\ thresholdValuesStr \in SeqsUpTo(Tokens, MaxArgs)
    /\ thresholdValues = <<>>
    /\ diskData = NoMap
    /\ pending = {}
    /\ cur = NoCur
    /\ pc = "parse"
    /\ wg = 0
    /\ tasks = <<>>
    /\ exit = "running"
    /\ statCalls = <<>>
    /\ slack = {}
    /\ stdout = <<>>
    /\ fin = "none"
    /\ fout = <<>>

-----------------------------------------------------------------------------
(* main *)

\* line 134: thresholdValues := MapStrToInt(thresholdValuesStr)
MainParse ==
    /\ exit = "running" /\ pc = "parse"
    /\ LET r == MapStrToInt(thresholdValuesStr) IN
       IF r.err
       THEN pc' = "panicking" /\ UNCHANGED thresholdValues
       ELSE pc' = "check" /\ thresholdValues' = r.vals
    /\ UNCHANGED <<diskNames, thresholdValuesStr, diskData, pending, cur, wg, tasks,
                   exit, statCalls, slack, stdout, fin, fout>>

\* a main that does not compare the two lengths
MainCheckSkipped ==
    /\ exit = "running" /\ pc = "check"
    /\ pc' = "build"
    /\ UNCHANGED <<diskNames, thresholdValuesStr, thresholdValues, diskData, pending,
                   cur, wg, tasks, exit, statCalls, slack, stdout, fin, fout>>

\* lines 137-139
MainCheck ==
    /\ exit = "running" /\ pc = "check"
    /\ pc' = IF Len(diskNames) # Len(thresholdValues) THEN "panicking" ELSE "build"
    /\ UNCHANGED <<diskNames, thresholdValuesStr, thresholdValues, diskData, pending,
                   cur, wg, tasks, exit, statCalls, slack, stdout, fin, fout>>

\* an association in which the first entry for a key stays
MapSetKeepFirst(m, v, t) ==
    [x \in DOMAIN m \cup {v} |-> IF x \in DOMAIN m THEN m[x] ELSE t]

\* diskData[v] = t
MapSet(m, v, t) == [x \in DOMAIN m \cup {v} |-> IF x = v THEN t ELSE m[x]]

\* lines 144-146 from index i on; "panic" is an index out of range
RECURSIVE BuildDiskData(_, _, _, _)
BuildDiskData(names, values, i, m) ==
    IF i > Len(names) THEN [err |-> FALSE, map |-> m]
    ELSE IF i > Len(values) THEN [err |-> TRUE, map |-> m]
    ELSE BuildDiskData(names, values, i + 1, MapSet(m, names[i], values[i]))

\* lines 142-146
MainBuild ==
    /\ exit = "running" /\ pc = "build"
    /\ LET r == BuildDiskData(diskNames, thresholdValues, 1, NoMap) IN
       IF r.err
       THEN pc' = "panicking" /\ UNCHANGED <<diskData, pending>>
       ELSE pc' = "loop" /\ diskData' = r.map /\ pending' = DOMAIN r.map
    /\ UNCHANGED <<diskNames, thresholdValuesStr, thresholdValues, cur, wg, tasks,
                   exit, statCalls, slack, stdout, fin, fout>>

\* a comparison that alerts at the threshold too
BreachedOrEqual(disk, thresholdValue) == disk.FreePercentage <= thresholdValue

\* line 155
Breached(disk, thresholdValue) == disk.FreePercentage < thresholdValue

\* a loop body that drops StatDisk's error and goes on with DiskState{}
AfterStatErrIgnored(r, thresholdValue) ==
    IF r.disk.FreePercentage < thresholdValue
    THEN /\ wg' = wg + 1
         /\ cur' = [disk |-> r.disk, threshold |-> thresholdValue]
         /\ pc' = "go"
    ELSE pc' = "loop" /\ UNCHANGED <<wg, cur>>

\* lines 152-157: what the loop body does with StatDisk's return (disk, err)
AfterStat(r, thresholdValue) ==
    IF r.err
    THEN pc' = "panicking" /\ UNCHANGED <<wg, cur>>
    ELSE IF Breached(r.disk, thresholdValue)
    THEN /\ wg' = wg + 1
         /\ cur' = [disk |-> r.disk, threshold |-> thresholdValue]
         /\ pc' = "go"
    ELSE pc' = "loop" /\ UNCHANGED <<wg, cur>>

\* lines 150-157: one iteration of the range over diskData (Go visits the keys
\* in an order of its choosing), up to and including wg.Add(1)
MainStat ==
    /\ exit = "running" /\ pc = "loop"
    /\ \E diskName \in pending, fs \in StatfsAnswers :
         \E r \in StatDisk(diskName, fs) :
            /\ pending' = pending \ {diskName}
            /\ statCalls' = Append(statCalls,
                  [path |-> diskName, threshold |-> diskData[diskName],
                   err |-> r.err, disk |-> r.disk])
            /\ AfterStat(r, diskData[diskName])
    /\ UNCHANGED <<diskNames, thresholdValuesStr, thresholdValues, diskData, tasks,
                   exit, slack, stdout, fin, fout>>

\* line 158: go SendDiskSpaceReport(disk, thresholdValue, *targetPtr, &wg)
MainGo ==
    /\ exit = "running" /\ pc = "go"
    /\ tasks' = Append(tasks, [disk |-> cur.disk, threshold |-> cur.threshold,
                               st |-> "post", err |-> FALSE])
    /\ cur' = NoCur
    /\ pc' = "loop"
    /\ UNCHANGED <<diskNames, thresholdValuesStr, thresholdValues, diskData, pending,
                   wg, exit, statCalls, slack, stdout, fin, fout>>

\* a main that does not wait
MainWaitNoBarrier ==
    /\ exit = "running" /\ pc = "loop" /\ pending = {}
    /\ pc' = "returned"
    /\ UNCHANGED <<diskNames, thresholdValuesStr, thresholdValues, diskData, pending,
                   cur, wg, tasks, exit, statCalls, slack, stdout, fin, fout>>

\* line 162: wg.Wait() returns once the counter is zero
MainWait ==
    /\ exit = "running" /\ pc = "loop" /\ pending = {}
    /\ wg = 0
    /\ pc' = "returned"
    /\ UNCHANGED <<diskNames, thresholdValuesStr, thresholdValues, diskData, pending,
                   cur, wg, tasks, exit, statCalls, slack, stdout, fin, fout>>

Panicking == pc = "panicking" \/ \E i \in DOMAIN tasks : tasks[i].st = "panicking"

\* line 163: main returns.  The Go runtime exits with status 0 unless a
\* goroutine is panicking, in which case it leaves the exit to the panic.
MainExit ==
    /\ exit = "running" /\ pc = "returned"
    /\ ~Panicking
    /\ exit' = "ok"
    /\ UNCHANGED <<diskNames, thresholdValuesStr, thresholdValues, diskData, pending,
                   cur, pc, wg, tasks, statCalls, slack, stdout, fin, fout>>

\* an unrecovered panic, once its goroutine's deferred calls have run, ends
\* the process with status 2 (lines 105, 116, 138, 153)
Fatal ==
    /\ exit = "running"
    /\ Panicking
    /\ exit' = "panic"
    /\ UNCHANGED <<diskNames, thresholdValuesStr, thresholdValues, diskData, pending,
                   cur, pc, wg, tasks, statCalls, slack, stdout, fin, fout>>

-----------------------------------------------------------------------------
(* SendDiskSpaceReport, goroutine i *)

SetSt(i, st) == [tasks EXCEPT ![i].st = st]

\* line 103: api.PostMessage returns without an error.  The text of the
\* message (DiskUsageStatsAsString) does not bear on what the task does next.
PostMessageOk(i) ==
    /\ exit = "running" /\ tasks[i].st = "post"
    /\ slack' = slack \cup {i}
    /\ tasks' = SetSt(i, "sent")
    /\ UNCHANGED <<diskNames, thresholdValuesStr, thresholdValues, diskData, pending,
                   cur, pc, wg, exit, statCalls, stdout, fin, fout>>

\* line 103: api.PostMessage returns an error
PostMessageErr(i) ==
    /\ exit = "running" /\ tasks[i].st = "post"
    /\ tasks' = [tasks EXCEPT ![i].st = "failed", ![i].err = TRUE]
    /\ UNCHANGED <<diskNames, thresholdValuesStr, thresholdValues, diskData, pending,
                   cur, pc, wg, exit, statCalls, slack, stdout, fin, fout>>

\* the deferred wg.Done() of line 101; a counter below zero panics
Done(i, st) ==
    IF wg > 0 THEN wg' = wg - 1 /\ tasks' = SetSt(i, st)
    ELSE wg' = wg /\ tasks' = SetSt(i, "panicking")

\* a task that returns on an error instead of panicking
TaskPanicSwallowed(i) ==
    /\ exit = "running" /\ tasks[i].st = "failed"
    /\ Done(i, "done")
    /\ UNCHANGED <<diskNames, thresholdValuesStr, thresholdValues, diskData, pending,
                   cur, pc, exit, statCalls, slack, stdout, fin, fout>>

\* lines 104-106: panic(err), which runs the deferred wg.Done()
TaskPanic(i) ==
    /\ exit = "running" /\ tasks[i].st = "failed"
    /\ Done(i, "panicking")
    /\ UNCHANGED <<diskNames, thresholdValuesStr, thresholdValues, diskData, pending,
                   cur, pc, exit, statCalls, slack, stdout, fin, fout>>

\* a task that prints nothing
TaskPrintfSilent(i) ==
    /\ exit = "running" /\ tasks[i].st = "sent"
    /\ tasks' = SetSt(i, "printed")
    /\ UNCHANGED <<diskNames, thresholdValuesStr, thresholdValues, diskData, pending,
                   cur, pc, wg, exit, statCalls, slack, stdout, fin, fout>>

\* line 107: the confirmation line
TaskPrintf(i) ==
    /\ exit = "running" /\ tasks[i].st = "sent"
    /\ stdout' = Append(stdout, i)
    /\ tasks' = SetSt(i, "printed")
    /\ UNCHANGED <<diskNames, thresholdValuesStr, thresholdValues, diskData, pending,
                   cur, pc, wg, exit, statCalls, slack, fin, fout>>

\* line 108: the function returns and the deferred wg.Done() runs
TaskReturn(i) ==
    /\ exit = "running" /\ tasks[i].st = "printed"
    /\ Done(i, "done")
    /\ UNCHANGED <<diskNames, thresholdValuesStr, thresholdValues, diskData, pending,
                   cur, pc, exit, statCalls, slack, stdout, fin, fout>>

Main == MainParse \/ MainCheck \/ MainBuild \/ MainStat \/ MainGo \/ MainWait \/ MainExit

Task(i) == PostMessageOk(i) \/ PostMessageErr(i) \/ TaskPanic(i) \/ TaskPrintf(i)
              \/ TaskReturn(i)

Next == Main \/ Fatal \/ \E i \in DOMAIN tasks : Task(i)

Spec == Init /\ [][Next]_vars

\* the scheduler runs every goroutine that can run, and PostMessage returns
FairSpec == Spec /\ WF_vars(Next)

-----------------------------------------------------------------------------
(* The pure functions on their own: Init draws the argument, one step      *)
(* applies the function.                                                   *)

NoRun ==
    /\ diskNames = <<>> /\ thresholdValuesStr = <<>> /\ thresholdValues = <<>>
    /\ diskData = NoMap /\ pending = {} /\ cur = NoCur /\ pc = "pure" /\ wg = 0
    /\ tasks = <<>> /\ exit = "running" /\ statCalls = <<>> /\ slack = {}
    /\ stdout = <<>>

RunVars == <<diskNames, thresholdValuesStr, thresholdValues, diskData, pending, cur,
             pc, wg, tasks, exit, statCalls, slack, stdout>>

\* every answer of Statfs with at most MaxBlocks blocks of 512 or 4096 bytes
InitStat ==
    /\ NoRun
    /\ fin \in {StatfsOk(b, s, a) : b \in 0..MaxBlocks, s \in {512, 4096}, a \in 0..MaxBlocks}
    /\ fin.Bavail <= fin.Blocks
    /\ fout = <<>>

ApplyStatDisk ==
    /\ fout = <<>>
    /\ \E r \in StatDisk("/", fin) : fout' = <<r>>
    /\ UNCHANGED <<fin, RunVars>>

SpecStat == InitStat /\ [][ApplyStatDisk]_vars

\* byte counts from 2^20 up, around the unit boundaries and between them
HiSamples == {1, 10, 16, 1023, 1024, 1536, 2^20 - 1, 2^20, 3 * 2^19}
LoSamples == {0, 1, 52428, 52429, 2^19, 2^20 - 1}

ByteInputs ==
    {U64(0, n) : n \in 0..MaxSmallBytes} \cup
    {U64(0, n) : n \in {10240, 2^20 - 1}} \cup
    {U64(h, l) : h \in HiSamples, l \in LoSamples}

InitBytes ==
    /\ NoRun
    /\ fin \in ByteInputs
    /\ fout = <<>>

ApplyByteSize ==
    /\ fout = <<>>
    /\ fout' = <<ByteSize(fin)>>
    /\ UNCHANGED <<fin, RunVars>>

SpecBytes == InitBytes /\ [][ApplyByteSize]_vars

-----------------------------------------------------------------------------
(* Properties *)

\* tasks that have not yet run their deferred wg.Done()
Unfinished == {i \in DOMAIN tasks : tasks[i].st \in {"post", "sent", "failed", "printed"}}

TasksFor(path) == {i \in DOMAIN tasks : tasks[i].disk.Name = path}

StatFailed == \E k \in DOMAIN statCalls : statCalls[k].err

SendFailed == \E i \in DOMAIN tasks : tasks[i].err

NotANumber(token) ==
    token = <<>> \/ \E j \in DOMAIN token :
                       token[j] \notin {"0", "1", "2", "3", "4", "5", "6", "7", "8", "9"}

ConfigError ==
    \/ Len(diskNames) # Len(thresholdValuesStr)
    \/ \E i \in DOMAIN thresholdValuesStr : NotANumber(thresholdValuesStr[i])

\* C1: the counter is the number of launched tasks that have not finished
\* (plus the one wg.Add(1) has announced and go has not yet started), and
\* once wg.Wait() has returned no launched task is unfinished.
C1_BarrierWaitsForEveryTask ==
    /\ wg = Cardinality(Unfinished) + (IF pc = "go" THEN 1 ELSE 0)
    /\ pc = "returned" => Unfinished = {}

\* main is past the barrier after two tasks, one that finished by returning
\* and one that finished by panicking
C1_Witness ==
    /\ pc = "returned" /\ Len(tasks) = 2
    /\ \E i, j \in DOMAIN tasks : tasks[i].st = "done" /\ tasks[j].st = "panicking"

\* every filesystem inspected so far has blocks
NoEmptyFilesystem ==
    \A k \in DOMAIN statCalls : ~statCalls[k].err => statCalls[k].disk.All > 0

\* C2 as claimed: once StatDisk has failed for a mount, no dispatch task has
\* been launched and no message has been sent for any mount of the run
\* (stated for runs that meet no empty filesystem, so that the zero total of
\* C8 plays no part in it).
C2_NoDispatchWhenStatFails ==
    (StatFailed /\ NoEmptyFilesystem) => tasks = <<>> /\ slack = {} /\ wg = 0

\* C2, amended: from the failure of StatDisk on, no further mount is
\* inspected, no further dispatch task is launched and the run does not
\* complete normally; the failing call is the last one.
C2_NothingNewAfterStatFails ==
    [][StatFailed => /\ statCalls' = statCalls
                     /\ Len(tasks') = Len(tasks)
                     /\ statCalls[Len(statCalls)].err
                     /\ exit' # "ok"]_vars

\* StatDisk failed for the second mount after a message went out for the first
C2_Witness ==
    /\ exit = "panic" /\ Len(statCalls) = 2 /\ statCalls[2].err
    /\ Len(tasks) = 1 /\ slack = {1}

\* C3: with a count mismatch or a threshold that is no number, the run makes
\* no StatDisk call, launches no task and does not complete normally.
C3_ConfigErrorBeforeInspection ==
    ConfigError => statCalls = <<>> /\ tasks = <<>> /\ wg = 0 /\ exit # "ok"

\* the process has ended on a count mismatch whose thresholds are all numbers
C3_Witness ==
    /\ exit = "panic"
    /\ Len(diskNames) # Len(thresholdValuesStr)
    /\ \A i \in DOMAIN thresholdValuesStr : ~NotANumber(thresholdValuesStr[i])

\* C4: between iterations, a mount inspected without error has one task if
\* its free percentage is below its threshold and none otherwise, and the
\* tasks are as many as the breaching inspections.
C4_OneTaskPerBreach ==
    pc # "go" =>
      /\ \A k \in DOMAIN statCalls :
            ~statCalls[k].err =>
               Cardinality(TasksFor(statCalls[k].path)) =
                  IF statCalls[k].disk.FreePercentage < statCalls[k].threshold
                  THEN 1 ELSE 0
      /\ Len(tasks) =
            Cardinality({k \in DOMAIN statCalls :
                           /\ ~statCalls[k].err
                           /\ statCalls[k].disk.FreePercentage < statCalls[k].threshold})

\* a run that ended with one mount at its threshold (no task) and one below
C4_Witness ==
    /\ exit = "ok" /\ Len(statCalls) = 2 /\ Len(tasks) = 1
    /\ \E k \in DOMAIN statCalls :
          /\ statCalls[k].disk.All > 0
          /\ statCalls[k].disk.FreePercentage = statCalls[k].threshold

\* C5 as claimed: once a send has returned an error, no further mount is
\* inspected, no new task is launched, no confirmation is printed for the
\* failed dispatch and the run does not complete normally (stated for runs
\* that meet no empty filesystem, as C2 is).
C5_NothingAfterSendFails ==
    [][(SendFailed /\ NoEmptyFilesystem') =>
                     /\ statCalls' = statCalls
                     /\ Len(tasks') = Len(tasks)
                     /\ \A i \in DOMAIN tasks : tasks[i].err =>
                           \A j \in DOMAIN stdout' : stdout'[j] # i
                     /\ exit' # "ok"]_vars

\* C5, amended: a dispatch whose send returned an error never gets its
\* confirmation line, and the process never ends with status zero.
C5_SendFailureIsFatal ==
    \A i \in DOMAIN tasks :
       tasks[i].err => /\ exit # "ok"
                       /\ \A j \in DOMAIN stdout : stdout[j] # i

\* the process has ended on the panic of the first task, after main went on
\* to launch a second
C5_Witness ==
    /\ exit = "panic" /\ Len(tasks) = 2 /\ tasks[1].err /\ tasks[1].st = "panicking"

\* C6: a run ends normally only with exactly one confirmation line per
\* launched task, and a run with valid configuration in which no inspection
\* and no send fails does end normally.
C6_CompletesWithOneLinePerDispatch ==
    /\ [](exit = "ok" =>
            /\ Len(stdout) = Len(tasks)
            /\ \A i \in DOMAIN tasks :
                  Cardinality({j \in DOMAIN stdout : stdout[j] = i}) = 1)
    /\ <>(exit = "ok" \/ ConfigError \/ StatFailed \/ SendFailed)

\* a run that ended normally after two dispatches
C6_Witness ==
    /\ exit = "ok" /\ Len(tasks) = 2 /\ Len(stdout) = 2 /\ slack = {1, 2}

LastOccurrence(path) ==
    CHOOSE i \in DOMAIN diskNames :
       diskNames[i] = path /\ \A j \in DOMAIN diskNames : j > i => diskNames[j] # path

\* C7: a path is inspected at most once, against the threshold of its last
\* occurrence in the input, and gets at most one task, with that threshold.
C7_LaterEntryOverwrites ==
    /\ \A k, l \in DOMAIN statCalls : statCalls[k].path = statCalls[l].path => k = l
    /\ \A k \in DOMAIN statCalls :
          statCalls[k].threshold = thresholdValues[LastOccurrence(statCalls[k].path)]
    /\ \A path \in Paths : Cardinality(TasksFor(path)) <= 1
    /\ \A i \in DOMAIN tasks :
          tasks[i].threshold = thresholdValues[LastOccurrence(tasks[i].disk.Name)]
    /\ pc = "returned" =>
          \A i \in DOMAIN diskNames : \E k \in DOMAIN statCalls : statCalls[k].path = diskNames[i]

\* a path given twice, with 60 and then 5, was found 5% free: no task, though
\* the first threshold would have given one
C7_Witness ==
    /\ exit = "ok" /\ Len(diskNames) = 2 /\ diskNames[1] = diskNames[2]
    /\ thresholdValues = <<60, 5>>
    /\ Len(statCalls) = 1 /\ statCalls[1].disk.FreePercentage = 5 /\ tasks = <<>>

\* C8: an inspection that did not fail has a total above zero, and so has the
\* snapshot of every task.
C8_ZeroTotalIsAStatError ==
    /\ \A k \in DOMAIN statCalls : ~statCalls[k].err => statCalls[k].disk.All > 0
    /\ \A i \in DOMAIN tasks : tasks[i].disk.All > 0

\* C9: for total > 0 the snapshot's FreePercentage is floor(free * 100 / total),
\* at most 100, and Used is total - free.
C9_PercentageIsFloor ==
    \A i \in DOMAIN fout :
       (~fout[i].err /\ fout[i].disk.All > 0) =>
          /\ fout[i].disk.All = fin.Blocks * fin.Bsize
          /\ fout[i].disk.Free = fin.Bavail * fin.Bsize
          /\ fout[i].disk.Used = fout[i].disk.All - fout[i].disk.Free
          /\ fout[i].disk.FreePercentage = (fout[i].disk.Free * 100) \div fout[i].disk.All
          /\ fout[i].disk.FreePercentage <= 100

\* the largest of 0, 10, 20, 30, 40 with bytes >= 2^p
UnitExponent(b) ==
    IF b.hi >= 2^20 THEN 40
    ELSE IF b.hi >= 2^10 THEN 30
    ELSE IF b.hi >= 1 THEN 20
    ELSE IF b.lo >= 2^10 THEN 10
    ELSE 0

UnitName(p) ==
    CASE p = 40 -> <<"T", "B">> [] p = 30 -> <<"G", "B">> [] p = 20 -> <<"M", "B">>
      [] p = 10 -> <<"K", "B">> [] OTHER -> <<"B">>

\* bytes * 10 / 2^p to the nearest integer, ties to even: the tenths of the
\* exact quotient
ExactTenths(b, p) ==
    LET lo10 == b.lo * 10
        b10  == U64(b.hi * 10 + lo10 \div Limb, lo10 % Limb)
    IN  IF p = 0 THEN b10.hi * Limb + b10.lo
        ELSE RoundShift(2 * FloorShift(b10, p - 2)
                          + (IF LowBits(b10, p - 2) THEN 1 ELSE 0), 3)

ExactRendering(b) ==
    IF b = U64(0, 0) THEN <<"0">>
    ELSE LET p == UnitExponent(b)
             t == ExactTenths(b, p)
         IN  (IF t % 10 = 0 THEN FormatInt(t \div 10)
              ELSE FormatInt(t \div 10) \o <<".">> \o FormatInt(t % 10))
             \o UnitName(p)

\* C10: ByteSize returns "0" for 0 and otherwise the quotient of bytes by the
\* largest unit not above it, to one decimal with a trailing ".0" dropped,
\* and the unit; the number shown is at least 1.
C10_RendersTheQuotient ==
    \A i \in DOMAIN fout :
       /\ fout[i] = ExactRendering(fin)
       /\ fin # U64(0, 0) => ExactTenths(fin, UnitExponent(fin)) >= 10

=============================================================================
